---- MODULE Spec2Model ----
(***************************************************************************)
(* The extraction / normalisation / persistence pipeline of dp_updater.py. *)
(*                                                                         *)
(* Text is a sequence of symbols.  A symbol is one character ("h", "@",    *)
(* "\n", " ") or one lexeme that the code never looks inside (a date such  *)
(* as "06-10-2026", the text of one JSON value in a service response).     *)
(* JSON values are tagged records: Str(s), Null, Obj(f) and Arr(items); a  *)
(* date is Date(d), d a day number.  The surrogate key "id" of job_postings is       *)
(* assigned by the store and read nowhere in the pipeline: a row of the    *)
(* model is the record of the ten columns insert_jobs writes.              *)
(***************************************************************************)
EXTENDS Integers, Sequences, FiniteSets, TLC

VARIABLES
    pc,         \* position of main: "start", "loop", "connect", "insert",
                \* "clear", "done", and "crashed" when an exception leaves main;
                \* of a function run on its own: "call", "returned"
    file,       \* ALL_MESSAGES_PATH: [exists |-> BOOLEAN, lines |-> Seq(line)]
    store,      \* committed rows of job_postings, in insertion order
    chunks,     \* main: chunks
    idx,        \* main: number of chunks the loop has consumed
    raw,        \* main: raw, the last value ask_groq returned
    all_jobs,   \* main: all_jobs
    i,          \* insert_jobs: number of elements of jobs the loop has consumed
    count,      \* insert_jobs: count
    txn,        \* insert_jobs: rows inserted in the open transaction
    outcome,    \* how insert_jobs ended: "none", "commit", "rollback", "raised"
    error,      \* insert_jobs: the exception e of "except Exception as e"
    before,     \* the store as it was when main started
    lines,      \* read_chunks on its own: the lines read
    k,          \* read_chunks on its own: lines_per_chunk
    result,     \* read_chunks on its own: the chunks returned
    nj,         \* row construction on its own: the extracted element j
    nrow        \* row construction on its own: the row built, or NoRow

vars == <<pc, file, store, chunks, idx, raw, all_jobs, i, count, txn, outcome,
          error, before, lines, k, result, nj, nrow>>

chunkVars == <<lines, k, result>>
rowVars == <<nj, nrow>>

(***************************************************************************)
(* Bounds of the model and constants of the program.                       *)
(***************************************************************************)
MaxRawLen == 3
MaxLines == 4
MaxK == 3
MaxLinkLen == 5
MaxTitleLen == 512
LinesPerChunk == 20
RetentionDays == 30

(***************************************************************************)
(* Values.                                                                 *)
(***************************************************************************)
Str(s) == [t |-> "str", s |-> s]
Null == [t |-> "null"]
Obj(f) == [t |-> "obj", f |-> f]
Arr(items) == [t |-> "arr", items |-> items]
Date(d) == [t |-> "date", day |-> d]

Min(a, b) == IF a <= b THEN a ELSE b

RECURSIVE Flatten(_)
Flatten(ss) == IF ss = <<>> THEN <<>> ELSE Head(ss) \o Flatten(Tail(ss))

\* All sequences over S of length at most n.
SeqsUpTo(S, n) == UNION {[1..m -> S] : m \in 0..n}

Keys == {"logo_url", "apply_link", "more_details", "posting_date", "job_title",
         "batch", "company_name", "location", "qualification", "salary"}

Columns == {"logo_link", "job_title", "batch", "company_name", "location",
            "qualification", "salary", "apply_link", "posted_date",
            "more_details"}

\* Column("job_title", ..., nullable=False), Column("posted_date", ..., nullable=False)
NotNullColumns == {"job_title", "posted_date"}

(***************************************************************************)
(* Dates.  DayOf is what strptime(.., "%d-%m-%Y").date() returns for the   *)
(* date lexemes of the model, as a day number; "31-02-2026" matches the    *)
(* format and is no calendar date, so strptime raises on it.               *)
(***************************************************************************)
DayOf == [d \in {"06-10-2026", "07-10-2026", "06-11-2026", "08-11-2026"} |->
            CASE d = "06-10-2026" -> 5
              [] d = "07-10-2026" -> 6
              [] d = "06-11-2026" -> 36
              [] d = "08-11-2026" -> 38]

\* datetime.date.today()
Today == DayOf["06-11-2026"]

(***************************************************************************)
(* read_chunks.  A line is a sequence of characters; "".join(current) is   *)
(* the concatenation of the lines of current.                              *)
(***************************************************************************)
RECURSIVE ReadLoop(_, _, _, _)
ReadLoop(ls, n, current, acc) ==
    IF ls = <<>>
    THEN IF current # <<>> THEN Append(acc, Flatten(current)) ELSE acc
    ELSE LET cur == Append(current, Head(ls))
         IN  IF Len(cur) = n
             THEN ReadLoop(Tail(ls), n, <<>>, Append(acc, Flatten(cur)))
             ELSE ReadLoop(Tail(ls), n, cur, acc)

\* read_chunks without the final "if current": the short last chunk is lost.
read_chunks_DropsTail(ls, lines_per_chunk) ==
    ReadLoop(SubSeq(ls, 1, (Len(ls) \div lines_per_chunk) * lines_per_chunk),
             lines_per_chunk, <<>>, <<>>)

read_chunks(ls, lines_per_chunk) == ReadLoop(ls, lines_per_chunk, <<>>, <<>>)

(***************************************************************************)
(* The response of the completion service and its decoding.  A response is *)
(* a sequence of symbols: "[", "]", ",", the prose symbol "x" (no JSON),   *)
(* and one symbol for the text of each JSON value of ElemOf.               *)
(***************************************************************************)
JobMin == Obj([job_title |-> Str(<<"S", "D", "E">>)])

JobNulls == Obj([job_title |-> Str(<<"Q", "A">>), batch |-> Null,
                 apply_link |-> Null,
                 posting_date |-> Str(<<"08-11-2026", " ", "10:30">>)])

JobOld == Obj([job_title |-> Str(<<"Q", "A">>),
               apply_link |-> Str(<<"a", "@", "b">>),
               posting_date |-> Str(<<"06-10-2026">>)])

JobNullTitle == Obj([job_title |-> Null, company_name |-> Str(<<"c">>)])

ElemOf == [e \in {"{min}", "{nulls}", "{old}", "{nulltitle}", "\"s\""} |->
            CASE e = "{min}" -> JobMin
              [] e = "{nulls}" -> JobNulls
              [] e = "{old}" -> JobOld
              [] e = "{nulltitle}" -> JobNullTitle
              [] e = "\"s\"" -> Str(<<"s">>)]

ElemTokens == DOMAIN ElemOf

ParseFail == [ok |-> FALSE]

\* json.loads on a sequence of symbols: a value is the text of one element or
\* an array "[" value ("," value)* "]"; anything else raises.
RECURSIVE ParseValue(_, _), ParseItems(_, _, _)
ParseValue(s, p) ==
    IF p > Len(s) THEN ParseFail
    ELSE IF s[p] \in ElemTokens
         THEN [ok |-> TRUE, val |-> ElemOf[s[p]], next |-> p + 1]
    ELSE IF s[p] = "["
         THEN IF p + 1 <= Len(s) /\ s[p + 1] = "]"
              THEN [ok |-> TRUE, val |-> Arr(<<>>), next |-> p + 2]
              ELSE ParseItems(s, p + 1, <<>>)
    ELSE ParseFail

ParseItems(s, p, acc) ==
    LET v == ParseValue(s, p)
    IN  IF ~v.ok THEN ParseFail
        ELSE IF v.next > Len(s) THEN ParseFail
        ELSE IF s[v.next] = ","
             THEN ParseItems(s, v.next + 1, Append(acc, v.val))
        ELSE IF s[v.next] = "]"
             THEN [ok |-> TRUE, val |-> Arr(Append(acc, v.val)), next |-> v.next + 1]
        ELSE ParseFail

json_loads(s) ==
    LET r == ParseValue(s, 1)
    IN  IF r.ok /\ r.next = Len(s) + 1 THEN [ok |-> TRUE, val |-> r.val]
        ELSE ParseFail

\* str.find / str.rfind of a one-character pattern, 0-based, -1 when absent.
find(s, c) ==
    IF \E n \in 1..Len(s) : s[n] = c
    THEN (CHOOSE n \in 1..Len(s) : s[n] = c /\ \A m \in 1..(n - 1) : s[m] # c) - 1
    ELSE -1

rfind(s, c) ==
    IF \E n \in 1..Len(s) : s[n] = c
    THEN (CHOOSE n \in 1..Len(s) : s[n] = c /\ \A m \in (n + 1)..Len(s) : s[m] # c) - 1
    ELSE -1

\* s[a:b] for 0 <= a, 0 <= b.
Slice(s, a, b) == SubSeq(s, a + 1, Min(b, Len(s)))

\* The loop body with raw[start:end] for raw[start:end+1].
ExtractJobs_ShortSlice(r) ==
    IF r = <<>> THEN <<>>
    ELSE LET start == find(r, "[")
             end == rfind(r, "]")
         IN  IF start = -1 \/ end = -1 THEN <<>>
             ELSE LET jobs == json_loads(Slice(r, start, end))
                  IN  IF jobs.ok THEN jobs.val.items ELSE <<>>

\* The body of main's loop for one chunk: the objects the chunk adds to all_jobs.
ExtractJobs(r) ==
    IF r = <<>> THEN <<>>
    ELSE LET start == find(r, "[")
             end == rfind(r, "]")
         IN  IF start = -1 \/ end = -1 THEN <<>>
             ELSE LET jobs == json_loads(Slice(r, start, end + 1))
                  IN  IF jobs.ok THEN jobs.val.items ELSE <<>>

\* ask_groq: the content of the response, or "" when the client raises.
ask_groq(reply) == IF reply.err THEN <<>> ELSE reply.content

(***************************************************************************)
(* insert_jobs, the construction of one row (the body of the for loop up   *)
(* to the row dictionary).  NoRow stands for an exception that leaves the  *)
(* loop: AttributeError when j has no get, TypeError when job_title cannot *)
(* be sliced.  The fields of an object are strings or null.                *)
(***************************************************************************)
NoRow == [ok |-> FALSE, e |-> "none"]
Raise(e) == [ok |-> FALSE, e |-> e]

\* j.get(key, default)
Get(j, key, default) == IF key \in DOMAIN j.f THEN j.f[key] ELSE default

Contains(s, c) == \E n \in 1..Len(s) : s[n] = c

StartsWith(s, prefix) ==
    Len(s) >= Len(prefix) /\ SubSeq(s, 1, Len(prefix)) = prefix

Http == <<"h", "t", "t", "p">>
Mailto == <<"m", "a", "i", "l", "t", "o", ":">>

\* The link repair without the test of the scheme.
RepairLink_NoSchemeTest(apply_link) ==
    IF apply_link.t = "str" /\ apply_link.s # <<>> /\ Contains(apply_link.s, "@")
    THEN Str(Mailto \o apply_link.s)
    ELSE apply_link

\* if apply_link and "@" in apply_link and not apply_link.startswith("http")
RepairLink(apply_link) ==
    IF apply_link.t = "str" /\ apply_link.s # <<>>
       /\ Contains(apply_link.s, "@") /\ ~StartsWith(apply_link.s, Http)
    THEN Str(Mailto \o apply_link.s)
    ELSE apply_link

\* posting_date_raw.split(" ")[0]
FirstField(s) ==
    IF Contains(s, " ") THEN SubSeq(s, 1, find(s, " ")) ELSE s

\* The try/except around strptime: any failure falls back to today.
PostingDate(posting_date_raw, today) ==
    IF posting_date_raw.t # "str" THEN Date(today)
    ELSE LET d == FirstField(posting_date_raw.s)
         IN  IF Len(d) = 1 /\ d[1] \in DOMAIN DayOf THEN Date(DayOf[d[1]])
             ELSE Date(today)

\* The title without the slice.
Title_NotTruncated(j) == Get(j, "job_title", Str(<<>>))

\* j.get("job_title", "")[:512]
Title(j) ==
    LET v == Get(j, "job_title", Str(<<>>))
    IN  Str(SubSeq(v.s, 1, Min(Len(v.s), MaxTitleLen)))

BuildRow(j, today) ==
    IF j.t # "obj" THEN Raise("AttributeError")
    ELSE IF Get(j, "job_title", Str(<<>>)).t # "str" THEN Raise("TypeError")
    ELSE [ok |-> TRUE,
          row |-> [logo_link |-> Get(j, "logo_url", Str(<<>>)),
                   job_title |-> Title(j),
                   batch |-> Get(j, "batch", Str(<<"a", "n", "y">>)),
                   company_name |-> Get(j, "company_name", Str(<<>>)),
                   location |-> Get(j, "location", Str(<<"R", "e", "m", "o", "t", "e">>)),
                   qualification |-> Get(j, "qualification",
                                         Str(<<"A", "n", "y", " ", "G", "r", "a", "d", "u", "a", "t", "e">>)),
                   salary |-> Get(j, "salary",
                                  Str(<<"N", "o", "t", " ", "D", "i", "s", "c", "l", "o", "s", "e", "d">>)),
                   apply_link |-> RepairLink(Get(j, "apply_link", Str(<<>>))),
                   posted_date |-> PostingDate(Get(j, "posting_date", Str(<<>>)), today),
                   more_details |-> Get(j, "more_details", Str(<<>>))]]

\* delete_old: the rows that are left after the delete commits.
delete_old(rows, today) ==
    LET cutoff == today - RetentionDays
        Keep(n) == ~(rows[n].posted_date.day < cutoff)
        F[n \in 0..Len(rows)] ==
            IF n = 0 THEN <<>>
            ELSE IF Keep(n) THEN Append(F[n - 1], rows[n]) ELSE F[n - 1]
    IN  F[Len(rows)]

(***************************************************************************)
(* The environment: the file the scraper appends to, the replies of the    *)
(* completion service and the answers of the store.                        *)
(***************************************************************************)
Line == <<"m", "\n">>

FileSizes == {0, 1, LinesPerChunk, LinesPerChunk + 1}

NoFile == [exists |-> FALSE, lines |-> <<>>]

Scraped == {[n \in 1..m |-> Line] : m \in FileSizes}

Pairs == {<<"{min}", "\"s\"">>, <<"\"s\"", "{min}">>, <<"{min}", "{min}">>,
          <<"{nulls}", "{old}">>, <<"{min}", "{nulltitle}">>}

Responses ==
    SeqsUpTo({"[", "]", "x", "{min}"}, MaxRawLen)
    \cup {<<"x", "[", e, "]", "x">> : e \in ElemTokens}
    \cup {<<"[", p[1], ",", p[2], "]">> : p \in Pairs}
    \cup {<<"[", "{min}", "]", "x", "[", "{old}", "]">>, <<"[", "[", "]", "]">>}

Replies == {[err |-> TRUE]} \cup {[err |-> FALSE, content |-> c] : c \in Responses}

\* engine.connect(), conn.execute(insert) and trans.commit(): done, or the
\* exception raised.
\* IntegrityError: a constraint of the table rejects the row.  DataError: the
\* store rejects a value of the row (too long for its column).
\* OperationalError: the connection is lost.
ExecuteAnswers == {"ok", "IntegrityError", "DataError", "OperationalError"}
CommitAnswers == {"ok", "OperationalError"}
ConnectAnswers == {"ok", "OperationalError"}

\* The NOT NULL columns of job_postings reject a null with an IntegrityError.
Execute(row, answer) ==
    IF \E c \in NotNullColumns : row[c] = Null THEN "IntegrityError" ELSE answer

\* What earlier runs have left in job_postings when main starts.
PriorStores ==
    {<<>>,
     <<BuildRow(JobOld, Today - 1).row, BuildRow(JobMin, Today - 1).row>>}

(***************************************************************************)
(* main, one step at a time, from the point where ensure_tables has        *)
(* returned.  open(path, "w") in clear_all_messages is taken to succeed on *)
(* the file that read_chunks has just read.                                *)
(***************************************************************************)
Init ==
    /\ pc = "start"
    /\ file \in {NoFile} \cup {[exists |-> TRUE, lines |-> l] : l \in Scraped}
    /\ store \in PriorStores
    /\ chunks = <<>>
    /\ idx = 0
    /\ raw = <<>>
    /\ all_jobs = <<>>
    /\ i = 0
    /\ count = 0
    /\ txn = <<>>
    /\ outcome = "none"
    /\ error = "none"
    /\ before = store
    /\ lines = <<>>
    /\ k = 1
    /\ result = <<>>
    /\ nj = Null
    /\ nrow = NoRow

\* main up to the loop: the existence test and read_chunks.
Start ==
    /\ pc = "start"
    /\ IF ~file.exists
       THEN /\ pc' = "done"
            /\ chunks' = <<>>
       ELSE /\ pc' = "loop"
            /\ chunks' = read_chunks(file.lines, LinesPerChunk)
    /\ all_jobs' = <<>>
    /\ UNCHANGED <<file, store, idx, raw, i, count, txn, outcome, error, before>>
    /\ UNCHANGED <<chunkVars, rowVars>>

\* One iteration of the loop over chunks.
ProcessChunk ==
    /\ pc = "loop"
    /\ idx < Len(chunks)
    /\ \E reply \in Replies :
        /\ raw' = ask_groq(reply)
        /\ all_jobs' = all_jobs \o ExtractJobs(ask_groq(reply))
    /\ idx' = idx + 1
    /\ UNCHANGED <<pc, file, store, chunks, i, count, txn, outcome, error, before>>
    /\ UNCHANGED <<chunkVars, rowVars>>

\* main returning from the "No jobs extracted" branch without clearing.
AfterLoop_ReturnsEarly ==
    /\ pc = "loop"
    /\ idx = Len(chunks)
    /\ pc' = IF all_jobs # <<>> THEN "connect" ELSE "done"
    /\ UNCHANGED <<file, store, chunks, idx, raw, all_jobs, i, count, txn, outcome,
                   error, before>>
    /\ UNCHANGED <<chunkVars, rowVars>>

\* After the loop: insert_jobs is called only for a non-empty list.
AfterLoop ==
    /\ pc = "loop"
    /\ idx = Len(chunks)
    /\ pc' = IF all_jobs # <<>> THEN "connect" ELSE "clear"
    /\ UNCHANGED <<file, store, chunks, idx, raw, all_jobs, i, count, txn, outcome,
                   error, before>>
    /\ UNCHANGED <<chunkVars, rowVars>>

\* The except branch ending the transaction with a commit.
Rollback_Commits(e) ==
    /\ store' = store \o txn
    /\ txn' = <<>>
    /\ outcome' = "rollback"
    /\ error' = e
    /\ pc' = "clear"
    /\ UNCHANGED count

\* insert_jobs before its try: conn = engine.connect(); trans = conn.begin().
\* An exception raised here leaves insert_jobs and main.
Connect ==
    /\ pc = "connect"
    /\ \E answer \in ConnectAnswers :
          IF answer = "ok"
          THEN /\ pc' = "insert"
               /\ UNCHANGED <<outcome, error>>
          ELSE /\ pc' = "crashed"
               /\ outcome' = "raised"
               /\ error' = answer
    /\ i' = 0
    /\ count' = 0
    /\ txn' = <<>>
    /\ UNCHANGED <<file, store, chunks, idx, raw, all_jobs, before>>
    /\ UNCHANGED <<chunkVars, rowVars>>

\* except Exception as e: trans.rollback(); insert_jobs returns.
Rollback(e) ==
    /\ txn' = <<>>
    /\ outcome' = "rollback"
    /\ error' = e
    /\ pc' = "clear"
    /\ UNCHANGED <<store, count>>

\* One iteration of the loop of insert_jobs.
InsertRecord ==
    /\ pc = "insert"
    /\ i < Len(all_jobs)
    /\ i' = i + 1
    /\ LET built == BuildRow(all_jobs[i + 1], Today)
       IN  IF ~built.ok THEN Rollback(built.e)
           ELSE \E answer \in ExecuteAnswers :
                   LET got == Execute(built.row, answer)
                   IN  IF got = "ok"
                       THEN /\ txn' = Append(txn, built.row)
                            /\ count' = count + 1
                            /\ UNCHANGED <<pc, store, outcome, error>>
                       ELSE IF got = "IntegrityError"
                       THEN UNCHANGED <<pc, store, outcome, error, txn, count>>
                       ELSE Rollback(got)
    /\ UNCHANGED <<file, chunks, idx, raw, all_jobs, before>>
    /\ UNCHANGED <<chunkVars, rowVars>>

\* trans.commit() after the loop.
Commit ==
    /\ pc = "insert"
    /\ i = Len(all_jobs)
    /\ \E answer \in CommitAnswers :
          IF answer = "ok"
          THEN /\ store' = store \o txn
               /\ txn' = <<>>
               /\ outcome' = "commit"
               /\ pc' = "clear"
               /\ UNCHANGED <<count, error>>
          ELSE Rollback(answer)
    /\ UNCHANGED <<file, chunks, idx, raw, all_jobs, i, before>>
    /\ UNCHANGED <<chunkVars, rowVars>>

\* clear_all_messages: open(path, "w").close()
Clear ==
    /\ pc = "clear"
    /\ file' = [exists |-> TRUE, lines |-> <<>>]
    /\ pc' = "done"
    /\ UNCHANGED <<store, chunks, idx, raw, all_jobs, i, count, txn, outcome, error, before>>
    /\ UNCHANGED <<chunkVars, rowVars>>

Next ==
    Start \/ ProcessChunk \/ AfterLoop \/ Connect \/ InsertRecord \/ Commit \/ Clear

Spec == Init /\ [][Next]_vars

(***************************************************************************)
(* read_chunks on its own, over every short sequence of lines.  Each line  *)
(* that readlines returns ends with "\n", except possibly the last.        *)
(***************************************************************************)
TermLines == {<<"\n">>, <<"a", "\n">>}

LineSeqs ==
    SeqsUpTo(TermLines, MaxLines)
    \cup {Append(ls, <<"a">>) : ls \in SeqsUpTo(TermLines, MaxLines - 1)}

MainIdle ==
    /\ file = NoFile
    /\ store = <<>>
    /\ chunks = <<>>
    /\ idx = 0
    /\ raw = <<>>
    /\ all_jobs = <<>>
    /\ i = 0
    /\ count = 0
    /\ txn = <<>>
    /\ outcome = "none"
    /\ error = "none"
    /\ before = <<>>

InitChunks ==
    /\ pc = "call"
    /\ lines \in LineSeqs
    /\ k \in 1..MaxK
    /\ result = <<>>
    /\ nj = Null
    /\ nrow = NoRow
    /\ MainIdle

CallReadChunks ==
    /\ pc = "call"
    /\ result' = read_chunks(lines, k)
    /\ pc' = "returned"
    /\ UNCHANGED <<lines, k, rowVars>>
    /\ UNCHANGED <<file, store, chunks, idx, raw, all_jobs, i, count, txn, outcome, error, before>>

NextChunks == CallReadChunks

SpecChunks == InitChunks /\ [][NextChunks]_vars

(***************************************************************************)
(* The construction of one row on its own, over a family of extracted      *)
(* elements: every set of keys present, every key alone and every key      *)
(* overridden in a full object with each value of its kind, and elements   *)
(* that are no objects.                                                    *)
(***************************************************************************)
V == Str(<<"v">>)

Long(n) == [x \in 1..n |-> "a"]

FieldValues == {Str(<<>>), V, Null}

TitleValues == {Str(<<>>), Str(<<"S", "D", "E">>), Str(Long(MaxTitleLen - 1)),
                Str(Long(MaxTitleLen)), Str(Long(MaxTitleLen + 1)), Null}

LinkValues ==
    {Str(l) : l \in SeqsUpTo({"h", "t", "p", "@"}, MaxLinkLen)}
    \cup {Str(<<"h", "t", "t", "p", "s", ":", "/", "/", "a", "@", "b">>),
          Str(<<"j", "o", "b", "s", "@", "a", "c", "m", "e", ".", "c", "o", "m">>),
          Null}

DateValues ==
    {Str(d) : d \in SeqsUpTo({"06-10-2026", "08-11-2026", "31-02-2026", " ", "-", "10:30"}, 2)}
    \cup {Str(<<"06-10-2026", "-", "10:30">>), Str(<<"06-10-2026", " ", "10:30">>), Null}

ValuesOf(key) ==
    CASE key = "job_title" -> TitleValues
      [] key = "apply_link" -> LinkValues
      [] key = "posting_date" -> DateValues
      [] OTHER -> FieldValues

FullObject == [key \in Keys |-> V]

Elements ==
    {Obj([key \in present |-> V]) : present \in SUBSET Keys}
    \cup UNION {{Obj([x \in {key} |-> v]) : v \in ValuesOf(key)} : key \in Keys}
    \cup UNION {{Obj([FullObject EXCEPT ![key] = v]) : v \in ValuesOf(key)} : key \in Keys}
    \cup {Obj([job_title |-> Str(Long(MaxTitleLen + 1)), batch |-> Str(<<>>)])}
    \cup {Str(<<"s">>), Arr(<<>>), Null}

InitRow ==
    /\ pc = "call"
    /\ nj \in Elements
    /\ nrow = NoRow
    /\ lines = <<>>
    /\ k = 1
    /\ result = <<>>
    /\ MainIdle

CallBuildRow ==
    /\ pc = "call"
    /\ nrow' = BuildRow(nj, Today)
    /\ pc' = "returned"
    /\ UNCHANGED <<nj, chunkVars>>
    /\ UNCHANGED <<file, store, chunks, idx, raw, all_jobs, i, count, txn, outcome, error, before>>

NextRow == CallBuildRow

SpecRow == InitRow /\ [][NextRow]_vars

(***************************************************************************)
(* The claims.                                                             *)
(***************************************************************************)

\* The substring of r from its first "[" to its last "]", both included.
Bracketed(r) ==
    LET a == CHOOSE n \in 1..Len(r) : r[n] = "[" /\ \A m \in 1..(n - 1) : r[m] # "["
        b == CHOOSE n \in 1..Len(r) : r[n] = "]" /\ \A m \in (n + 1)..Len(r) : r[m] # "]"
    IN  SubSeq(r, a, b)

\* What a chunk with response r contributes: nothing when the call failed,
\* when a bracket is missing or when the bracketed text does not decode.
Contribution(r) ==
    IF r = <<>> \/ ~Contains(r, "[") \/ ~Contains(r, "]") THEN <<>>
    ELSE IF ~json_loads(Bracketed(r)).ok THEN <<>>
    ELSE json_loads(Bracketed(r)).val.items

\* C1: all_jobs starts empty; every iteration of the loop moves on to the next
\* chunk whatever the response was and appends exactly what the chunk
\* contributes (nothing for a failed chunk), so all_jobs is the concatenation
\* in chunk order of the decoded arrays; main leaves the loop only after the
\* last chunk.
C1_ChunkIsolation ==
    /\ [](pc = "loop" /\ idx = 0 => all_jobs = <<>>)
    /\ [][pc = "loop" /\ idx < Len(chunks) =>
            /\ pc' = "loop"
            /\ idx' = idx + 1
            /\ all_jobs' = all_jobs \o Contribution(raw')]_vars
    /\ [](pc \in {"connect", "insert", "clear"} => idx = Len(chunks))

C1_Witness ==
    /\ pc = "loop"
    /\ Len(chunks) = 2
    /\ idx = 2
    /\ raw = <<"x", "[", "{old}", "]", "x">>
    /\ all_jobs = <<JobOld>>

PerRecordErrors == {"AttributeError", "TypeError", "DataError", "IntegrityError"}

\* C2: a failure that concerns one record never aborts the batch: insert_jobs
\* ends with a rollback only for an error that is not isolated to a record.
C2_PerRecordFailureSkipsRecord ==
    outcome = "rollback" => error \notin PerRecordErrors

\* C3: when the connection is lost during insert_jobs, no transaction stays
\* open (it was rolled back, or never begun) and the store holds exactly the
\* rows it held before the call.
C3_RollbackRestoresStore ==
    error = "OperationalError" =>
        /\ outcome \in {"rollback", "raised"}
        /\ txn = <<>>
        /\ store = before

C3_Witness ==
    /\ pc = "done"
    /\ error = "OperationalError"
    /\ count >= 1
    /\ before # <<>>
    /\ store = before

\* C4: no column of a row of job_postings is null.
C4_NoNullInStore ==
    \A n \in 1..Len(store) : \A c \in Columns : store[n][c] # Null

\* C6: the posted_date values of one batch, in batch order, never decrease and
\* none is more than a day after today.
C6_DatesSequenced ==
    /\ \A a, b \in 1..Len(txn) :
          a < b => txn[a].posted_date.day <= txn[b].posted_date.day
    /\ \A a \in 1..Len(txn) : txn[a].posted_date.day <= Today + 1

\* C7: a run that has persisted a batch ends with the expired postings pruned:
\* the store is what delete_old leaves of it.
C7_PrunedWhenRunEnds ==
    pc = "done" /\ outcome = "commit" => store = delete_old(store, Today)

C8_SegmenterReconstructs ==
    pc = "returned" =>
        /\ Flatten(result) = Flatten(lines)
        /\ Len(result) = (Len(lines) + k - 1) \div k
        /\ \A c \in 1..Len(result) :
              result[c] =
                 Flatten(SubSeq(lines, (c - 1) * k + 1, Min(c * k, Len(lines))))
        /\ (lines = <<>> => result = <<>>)

C8_Witness ==
    /\ pc = "returned"
    /\ Len(lines) = 4
    /\ k = 3
    /\ Len(result) = 2
    /\ result[2] = <<"a">>

\* C9: a string apply_link is stored with "mailto:" in front exactly when it is
\* not empty, contains "@" and does not start with "http"; otherwise it is
\* stored as it is.
C9_LinkRepair ==
    pc = "returned" /\ nj.t = "obj" /\ nrow.ok
    /\ "apply_link" \in DOMAIN nj.f /\ nj.f["apply_link"].t = "str" =>
        LET given == nj.f["apply_link"].s
            kept == nrow.row.apply_link
            email == given # <<>> /\ Contains(given, "@") /\ ~StartsWith(given, Http)
        IN  /\ kept.t = "str"
            /\ (kept.s # given) <=> email
            /\ (email => kept.s = Mailto \o given)
            /\ (StartsWith(given, Http) => kept.s = given)
            /\ (given = <<>> => kept.s = <<>>)

C9_Witness ==
    /\ pc = "returned"
    /\ nj = Obj([apply_link |-> Str(<<"j", "o", "b", "s", "@", "a", "c", "m", "e", ".", "c", "o", "m">>)])
    /\ nrow.ok
    /\ nrow.row.apply_link =
          Str(Mailto \o <<"j", "o", "b", "s", "@", "a", "c", "m", "e", ".", "c", "o", "m">>)

\* The defaulting table: column, source key, default.
Defaults ==
    {<<"batch", "batch", Str(<<"a", "n", "y">>)>>,
     <<"location", "location", Str(<<"R", "e", "m", "o", "t", "e">>)>>,
     <<"qualification", "qualification",
       Str(<<"A", "n", "y", " ", "G", "r", "a", "d", "u", "a", "t", "e">>)>>,
     <<"salary", "salary",
       Str(<<"N", "o", "t", " ", "D", "i", "s", "c", "l", "o", "s", "e", "d">>)>>,
     <<"company_name", "company_name", Str(<<>>)>>,
     <<"logo_link", "logo_url", Str(<<>>)>>,
     <<"more_details", "more_details", Str(<<>>)>>}

Truncated(v) == Str(SubSeq(v.s, 1, Min(Len(v.s), MaxTitleLen)))

Mailed(v) ==
    IF v.t = "str" /\ v.s # <<>> /\ Contains(v.s, "@") /\ ~StartsWith(v.s, Http)
    THEN Str(Mailto \o v.s) ELSE v

\* The value the table gives for source key `key` of j: the default when the
\* key is absent or its value empty, the source value otherwise.
Defaulted(j, key, default) ==
    IF key \in DOMAIN j.f /\ j.f[key] # Str(<<>>) /\ j.f[key] # Null
    THEN j.f[key] ELSE default

====
